---------------------------- MODULE Spec2Model ----------------------------
(***************************************************************************)
(* A model of the movecell_graph library (src/src/lib.rs): an arena-backed *)
(* graph whose nodes carry a datum and an append-only edge list behind a   *)
(* MoveCell, a Graph facade with an optional root, the explicit-stack      *)
(* depth-first iterator DfsIter, and the FromIterator collector that       *)
(* returns the first node of a sequence.                                   *)
(*                                                                         *)
(* Memory is one heap of Node values; a node reference (&'a Node) is the   *)
(* node's address, its index in the heap.  Every Graph value owns an arena *)
(* (the set of addresses it allocated) and a root cell.                    *)
(***************************************************************************)
EXTENDS Integers, Sequences, FiniteSets

\* ------------------------------------------------------------------ bounds
\* Nodes the callers allocate in a run of Spec.
MaxNodes == 2
\* add_edge calls in a run of Spec.
MaxEdges == 2
\* Values one DfsIter is asked for in a run of Spec (a cyclic graph never ends).
MaxOut == 4
\* Nodes of the tree a run of SpecTree builds (the test it_works builds 5).
TreeNodes == 5
\* Nodes and add_edge calls of the acyclic graph a run of SpecDag builds.
DagNodes == 4
DagEdges == 4
\* Nodes and add_edge calls of the acyclic graph a run of SpecWalk builds.
WalkNodes == 3
WalkEdges == 4
\* Nodes and add_edge calls of the two graphs a run of SpecOwn builds.
OwnNodes == 2
OwnEdges == 1
\* Nodes and add_edge calls of the graph a run of SpecTrav builds.
TravNodes == 3
TravEdges == 2
\* Nodes and add_edge calls of the graph a run of SpecLoop builds.
LoopNodes == 2
LoopEdges == 2
\* Nodes and add_edge calls of the graph a run of SpecPair builds, and the
\* values each of its two iterators is asked for.
PairNodes == 2
PairEdges == 2
PairOut == 3

\* ------------------------------------------------------------ Option<T>
None == <<>>
Some(x) == <<x>>

\* The two Graph values of the test it_works.
Graphs == {"graph", "graph2"}

\* The caller's variables that hold a DfsIter: the two for-loops of it_works.
IterNames == {"it", "it2"}

VARIABLES
    heap,    \* Seq of Node: heap[a] is the node at address a
    arena,   \* arena[g]: the addresses Graph g's Arena allocated
    root,    \* root[g]: Graph g's root cell, an Option of an address
    iters,   \* iters[i]: the caller's variable i, an Option of a DfsIter
             \* with what its consumer has seen of it
    coll,    \* the from_iter call in progress, or the last one
    ret,     \* the last completed call that returns a reference: its name
             \* and the Option of the reference it returned
    panic,   \* "none", or the place that panicked: the program is dead
    trav     \* the traverse call in progress, or the last one

vars == <<heap, arena, root, iters, coll, ret, panic, trav>>

Addr == 1..Len(heap)

\* ---------------------------------------------------------------- Graph
\* Graph::new: an empty arena and an unset root.
Graph_new == [arena |-> {}, root |-> None]

\* Node::new: a detached node with an empty (None) edge cell.
Node_new(datum) == [datum |-> datum, edges |-> None]

\* Arena::alloc through Graph::own_node: the node moves to a fresh address.
own_node(h, node) == [heap |-> Append(h, node), ref |-> Len(h) + 1]

\* A set_root that keeps a root already set.
set_root_once(cell, n) ==
    [root |-> IF cell = None THEN Some(n) ELSE cell, ref |-> n]

\* Graph::set_root: the cell holds Some(root); the argument is returned.
set_root(cell, n) == [root |-> Some(n), ref |-> n]

\* Graph::root: self.root.get().unwrap().
root_get(cell) ==
    IF cell = None THEN [panic |-> "root", ref |-> None]
    ELSE [panic |-> "none", ref |-> Some(cell[1])]

\* ------------------------------------------------------------- MoveCell
\* MoveCell::take on a node's edge cell: the cell is left None.
take(h, n) == [h EXCEPT ![n].edges = None]

\* MoveCell::replace on a node's edge cell.
replace(h, n, v) == [h EXCEPT ![n].edges = v]

\* Option::unwrap_or(Vec::new()).
unwrap_or_new(cell) == IF cell = None THEN <<>> ELSE cell[1]

\* ----------------------------------------------------------------- Node
\* An add_edge that skips a target the list already holds.
add_edge_dedup(h, n, edge) ==
    LET old   == unwrap_or_new(h[n].edges)
        edges == IF \E k \in 1..Len(old) : old[k] = edge THEN old
                 ELSE Append(old, edge)
    IN  [heap |-> replace(take(h, n), n, Some(edges)), ref |-> edge]

\* An add_edge that starts a new list for every edge.
add_edge_fresh(h, n, edge) ==
    [heap |-> replace(take(h, n), n, Some(<<edge>>)), ref |-> edge]

\* Node::add_edge: take the list (or a new one), push, put it back.
add_edge(h, n, edge) ==
    LET edges == Append(unwrap_or_new(h[n].edges), edge)
    IN  [heap |-> replace(take(h, n), n, Some(edges)), ref |-> edge]

\* A dfs whose first frame is already started.
dfs_started(n) == [branch_points |-> << <<Some(0), n>> >>]

\* Node::dfs: a stack of one frame, (None, self).
dfs(n) == [branch_points |-> << <<None, n>> >>]

\* -------------------------------------------------------------- DfsIter
\* Vec's checked indexing edges[index]: Rust counts from 0, and an index
\* out of range panics.
vec_index(edges, index) ==
    IF index < Len(edges) THEN [panic |-> "none", v |-> edges[index + 1]]
    ELSE [panic |-> "index", v |-> 0]

\* A PushChild whose range check is off by one.
PushChild_off_by_one(rest, index, node, edges) ==
    IF index <= Len(edges)
    THEN LET e == vec_index(edges, index)
         IN  [branch_points |->
                  rest \o << <<Some(index + 1), node>>, <<None, e.v>> >>,
              panic |-> e.panic]
    ELSE [branch_points |-> rest, panic |-> "none"]

\* A PushChild that does not descend into a node the stack already holds.
PushChild_on_stack(rest, index, node, edges) ==
    IF index < Len(edges)
    THEN LET e == vec_index(edges, index)
             held == {node} \cup {rest[k][2] : k \in 1..Len(rest)}
         IN  [branch_points |->
                  IF e.v \in held THEN Append(rest, <<Some(index + 1), node>>)
                  ELSE rest \o << <<Some(index + 1), node>>, <<None, e.v>> >>,
              panic |-> e.panic]
    ELSE [branch_points |-> rest, panic |-> "none"]

\* A PushChild that pushes the child below the frame of its parent.
PushChild_swapped(rest, index, node, edges) ==
    IF index < Len(edges)
    THEN LET e == vec_index(edges, index)
         IN  [branch_points |->
                  rest \o << <<None, e.v>>, <<Some(index + 1), node>> >>,
              panic |-> e.panic]
    ELSE [branch_points |-> rest, panic |-> "none"]

\* A PushChild that skips a child an earlier edge of the node already named.
PushChild_skip_dup(rest, index, node, edges) ==
    IF index < Len(edges)
    THEN LET e == vec_index(edges, index)
         IN  [branch_points |->
                  IF \E k \in 1..index : edges[k] = e.v
                  THEN Append(rest, <<Some(index + 1), node>>)
                  ELSE rest \o << <<Some(index + 1), node>>, <<None, e.v>> >>,
              panic |-> e.panic]
    ELSE [branch_points |-> rest, panic |-> "none"]

\* A PushChild that pushes the parent back with the same index.
PushChild_no_advance(rest, index, node, edges) ==
    IF index < Len(edges)
    THEN LET e == vec_index(edges, index)
         IN  [branch_points |->
                  rest \o << <<Some(index), node>>, <<None, e.v>> >>,
              panic |-> e.panic]
    ELSE [branch_points |-> rest, panic |-> "none"]

\* A PushChild that takes the children from the end of the list.
PushChild_reversed(rest, index, node, edges) ==
    IF index < Len(edges)
    THEN LET e == vec_index(edges, Len(edges) - 1 - index)
         IN  [branch_points |->
                  rest \o << <<Some(index + 1), node>>, <<None, e.v>> >>,
              panic |-> e.panic]
    ELSE [branch_points |-> rest, panic |-> "none"]

\* The frames pushed for a started frame (Some(index), node), lines 132-135.
PushChild(rest, index, node, edges) ==
    IF index < Len(edges)
    THEN LET e == vec_index(edges, index)
         IN  [branch_points |->
                  rest \o << <<Some(index + 1), node>>, <<None, e.v>> >>,
              panic |-> e.panic]
    ELSE [branch_points |-> rest, panic |-> "none"]

\* A PushStarted that pushes the frame back as it was popped.
PushStarted_again(rest, node) == Append(rest, <<None, node>>)

\* The frame pushed back for a not-yet-started frame.
PushStarted(rest, node) == Append(rest, <<Some(0), node>>)

\* A next that leaves the cell as take left it.
put_back_lost(h, node, edges) == h

\* A next that puts a new, empty list into the cell.
put_back_empty(h, node, edges) == replace(h, node, Some(<<>>))

\* node.edges.replace(Some(edges)), line 140.
put_back(h, node, edges) == replace(h, node, Some(edges))

\* DfsIter::next: the while-let loop.  The result is the stack, the heap,
\* the returned Option, and the panic that ended the call, if one did.
RECURSIVE DfsNext(_, _)
DfsNext(bp, h) ==
    IF bp = <<>>
    THEN [branch_points |-> bp, heap |-> h, item |-> None, panic |-> "none"]
    ELSE
      LET rest  == SubSeq(bp, 1, Len(bp) - 1)
          index == bp[Len(bp)][1]
          node  == bp[Len(bp)][2]
          cell  == h[node].edges
          taken == take(h, node)
      IN  IF cell # None
          THEN LET edges == cell[1]
                   back  == put_back(taken, node, edges)
               IN  IF index = None
                   THEN [branch_points |-> PushStarted(rest, node),
                         heap |-> back, item |-> Some(node), panic |-> "none"]
                   ELSE LET p == PushChild(rest, index[1], node, edges)
                        IN  IF p.panic = "none"
                            THEN DfsNext(p.branch_points, back)
                            ELSE [branch_points |-> p.branch_points,
                                  heap |-> taken, item |-> None,
                                  panic |-> p.panic]
          ELSE [branch_points |-> rest, heap |-> taken, item |-> Some(node),
                panic |-> "none"]

\* ------------------------------------------------------------------ Init
Init ==
    /\ heap = <<>>
    /\ arena = [g \in Graphs |-> Graph_new.arena]
    /\ root = [g \in Graphs |-> Graph_new.root]
    /\ iters = [i \in IterNames |-> None]
    /\ coll = [pc |-> "idle", it |-> "it", from |-> 0, map |-> None, root |-> None]
    /\ ret = [op |-> "new", ref |-> None]
    /\ panic = "none"
    /\ trav = [pc |-> "idle", start |-> 0, stack |-> <<>>, visited |-> {},
               calls |-> <<>>]

\* The caller runs: nothing has panicked and no collect is in its loop.
Running == panic = "none" /\ coll.pc # "drain"

Live(i) == iters[i] # None
It(i) == iters[i][1]

\* A node's edge list as a sequence (an empty cell holds no edge).
Edges(h, n) == unwrap_or_new(h[n].edges)

NumEdges == LET RECURSIVE Sum(_)
                Sum(a) == IF a = 0 THEN 0 ELSE Len(Edges(heap, a)) + Sum(a - 1)
            IN  Sum(Len(heap))

\* --------------------------------------------------------------- actions
\* graph.own_node(Node::new(d))
OwnNode(g, d) ==
    /\ Running
    /\ LET r == own_node(heap, Node_new(d))
       IN  /\ heap' = r.heap
           /\ arena' = [arena EXCEPT ![g] = @ \cup {r.ref}]
           /\ ret' = [op |-> "own_node", ref |-> Some(r.ref)]
    /\ UNCHANGED <<root, iters, coll, panic, trav>>

\* graph.set_root(n)
SetRoot(g, n) ==
    /\ Running
    /\ LET r == set_root(root[g], n)
       IN  /\ root' = [root EXCEPT ![g] = r.root]
           /\ ret' = [op |-> "set_root", ref |-> Some(r.ref)]
    /\ UNCHANGED <<heap, arena, iters, coll, panic, trav>>

\* graph.root()
Root(g) ==
    /\ Running
    /\ LET r == root_get(root[g])
       IN  /\ panic' = r.panic
           /\ ret' = IF r.panic = "none" THEN [op |-> "root", ref |-> r.ref]
                      ELSE ret
    /\ UNCHANGED <<heap, arena, root, iters, coll, trav>>

\* Every live iterator's consumer notes that the graph changed under it.
Mutated(its) ==
    [i \in IterNames |->
        IF its[i] = None THEN None ELSE Some([its[i][1] EXCEPT !.mutated = TRUE])]

\* Every live iterator's consumer notes the edge that n.add_edge is about to
\* append (node and position in the list) when the iterator's stack holds a
\* frame of n.
Due(its, h, n) ==
    [i \in IterNames |->
        IF its[i] = None THEN None
        ELSE LET bp == its[i][1].branch_points
             IN  IF \E j \in 1..Len(bp) : bp[j][2] = n
                 THEN Some([its[i][1] EXCEPT
                               !.due = @ \cup {<<n, Len(Edges(h, n)) + 1>>}])
                 ELSE its[i]]

\* n.add_edge(t)
AddEdge(n, t) ==
    /\ Running
    /\ LET r == add_edge(heap, n, t)
       IN  /\ heap' = r.heap
           /\ ret' = [op |-> "add_edge", ref |-> Some(r.ref)]
    /\ iters' = Due(Mutated(iters), heap, n)
    /\ UNCHANGED <<arena, root, coll, panic, trav>>

\* A new DfsIter with its consumer's record: where it started, what it
\* yielded so far, whether it returned None, whether add_edge ran since, and
\* the edges appended to a node while the stack held a frame of it.
NewIter(n) ==
    [branch_points |-> dfs(n).branch_points, start |-> n, out |-> <<>>,
     ended |-> FALSE, mutated |-> FALSE, due |-> {}]

\* let i = n.dfs()
Dfs(i, n) ==
    /\ Running
    /\ iters' = [iters EXCEPT ![i] = Some(NewIter(n))]
    /\ UNCHANGED <<heap, arena, root, coll, ret, panic, trav>>

\* let i = g.dfs(): Deref::deref (self.root()) and then Node::dfs.
GraphDfs(i, g) ==
    /\ Running
    /\ LET r == root_get(root[g])
       IN  /\ panic' = r.panic
           /\ iters' = IF r.panic = "none"
                       THEN [iters EXCEPT ![i] = Some(NewIter(r.ref[1]))]
                       ELSE iters
    /\ UNCHANGED <<heap, arena, root, coll, ret, trav>>

\* The consumer's record of iterator it after a next() with result r.
Seen(it, r) ==
    Some([it[1] EXCEPT !.branch_points = r.branch_points,
                       !.out = IF r.item = None THEN @ ELSE Append(@, r.item[1]),
                       !.ended = @ \/ r.item = None])

\* i.next()
IterNext(i) ==
    /\ Running
    /\ Live(i)
    /\ LET r == DfsNext(It(i).branch_points, heap)
       IN  /\ heap' = r.heap
           /\ iters' = [iters EXCEPT ![i] = Seen(@, r)]
           /\ panic' = r.panic
    /\ UNCHANGED <<arena, root, coll, ret, trav>>

\* ------------------------------------------------------------- from_iter
\* The closure of the test it_works: |e| graph2.own_node(Node::new(e.datum
\* as f32 * 2.1)).  A datum of the new graph is kept in tenths, so that
\* 2.1 * d is the integer 21 * d.
Transform(d) == d * 21

\* One next() of the iterable handed to from_iter: the iterator i itself
\* (m = None) or i.map(closure into graph m[1]).  `produced` is what
\* from_iter receives.
MapNext(i, m) ==
    LET r == DfsNext(It(i).branch_points, heap)
    IN  IF r.item = None \/ m = None
        THEN [raw |-> r, heap |-> r.heap, arena |-> arena, produced |-> r.item]
        ELSE LET o == own_node(r.heap, Node_new(Transform(r.heap[r.item[1]].datum)))
             IN  [raw |-> r, heap |-> o.heap,
                  arena |-> [arena EXCEPT ![m[1]] = @ \cup {o.ref}],
                  produced |-> Some(o.ref)]

\* Option::unwrap of the first element (line 107).
unwrap_first(produced) == IF produced = None THEN "from_iter" ELSE "none"

\* from_iter, lines 106-107: into_iter and the first next().unwrap().
FromIterFirst(i, m) ==
    /\ Running
    /\ Live(i)
    /\ LET s == MapNext(i, m)
       IN  /\ heap' = s.heap
           /\ arena' = s.arena
           /\ iters' = [iters EXCEPT ![i] = Seen(@, s.raw)]
           /\ panic' = IF s.raw.panic = "none" THEN unwrap_first(s.produced)
                        ELSE s.raw.panic
           /\ coll' = IF s.produced = None THEN coll
                      ELSE [pc |-> "drain", it |-> i, from |-> Len(It(i).out),
                            map |-> m, root |-> s.produced]
    /\ UNCHANGED <<root, ret, trav>>

\* A from_iter that returns after its first element.
drain_never(produced) == FALSE

\* Whether the loop of line 108 goes round again.
drain_again(produced) == produced # None

\* from_iter, lines 108-109: one round of `while iter.next().is_some() {}`,
\* and the return of root when next() is None.
FromIterDrain ==
    /\ panic = "none"
    /\ coll.pc = "drain"
    /\ LET s == MapNext(coll.it, coll.map)
       IN  /\ heap' = s.heap
           /\ arena' = s.arena
           /\ iters' = [iters EXCEPT ![coll.it] = Seen(@, s.raw)]
           /\ coll' = IF drain_again(s.produced) \/ s.raw.panic # "none"
                      THEN coll ELSE [coll EXCEPT !.pc = "done"]
           /\ ret' = IF drain_again(s.produced) \/ s.raw.panic # "none" THEN ret
                      ELSE [op |-> "from_iter", ref |-> coll.root]
           /\ panic' = s.raw.panic
    /\ UNCHANGED <<root, trav>>

\* ------------------------------------------------------------------ Spec
\* Any caller of one Graph with one DfsIter variable: every public
\* operation, in any order.

\* The datum of the next node of graph g, numbered as the test numbers them:
\* Node::new(1), Node::new(2), ...
NextDatum(g) == Cardinality(arena[g]) + 1

CanAsk(i) == Len(It(i).out) < MaxOut

Next ==
    \/ Len(heap) < MaxNodes /\ OwnNode("graph", NextDatum("graph"))
    \/ \E n \in Addr : SetRoot("graph", n)
    \/ Root("graph")
    \/ \E n \in Addr, t \in Addr : NumEdges < MaxEdges /\ AddEdge(n, t)
    \/ \E n \in Addr : ~Live("it") /\ Dfs("it", n)
    \/ ~Live("it") /\ GraphDfs("it", "graph")
    \/ Live("it") /\ CanAsk("it") /\ IterNext("it")
    \/ Live("it") /\ CanAsk("it") /\ FromIterFirst("it", None)
    \/ coll.pc = "drain" /\ CanAsk(coll.it) /\ FromIterDrain

Spec == Init /\ [][Next]_vars

\* -------------------------------------------------------------- SpecTree
\* The test it_works with any tree in place of its five nodes: the tree is
\* built top down by the chained calls of lines 155-159, walked by
\* graph.dfs(), mapped and collected into graph2, and graph2 is walked.

\* graph.set_root(graph.own_node(Node::new(d))), line 155.
MakeRoot(g, d) ==
    /\ Running
    /\ LET o == own_node(heap, Node_new(d))
           r == set_root(root[g], o.ref)
       IN  /\ heap' = o.heap
           /\ arena' = [arena EXCEPT ![g] = @ \cup {o.ref}]
           /\ root' = [root EXCEPT ![g] = r.root]
           /\ ret' = [op |-> "set_root", ref |-> Some(r.ref)]
    /\ UNCHANGED <<iters, coll, panic, trav>>

\* n.add_edge(graph.own_node(Node::new(d))), lines 156-159.
AddChild(g, n, d) ==
    /\ Running
    /\ LET o == own_node(heap, Node_new(d))
           r == add_edge(o.heap, n, o.ref)
       IN  /\ heap' = r.heap
           /\ arena' = [arena EXCEPT ![g] = @ \cup {o.ref}]
           /\ ret' = [op |-> "add_edge", ref |-> Some(r.ref)]
    /\ iters' = Due(Mutated(iters), heap, n)
    /\ UNCHANGED <<root, coll, panic, trav>>

NextTree ==
    \/ arena["graph"] = {} /\ MakeRoot("graph", NextDatum("graph"))
    \/ \E n \in arena["graph"] :
          /\ Cardinality(arena["graph"]) < TreeNodes
          /\ AddChild("graph", n, NextDatum("graph"))
    \/ ~Live("it") /\ GraphDfs("it", "graph")
    \/ \E n \in arena["graph"] : ~Live("it") /\ Dfs("it", n)
    \/ IterNext("it")
    \/ \E m \in {None, Some("graph2")} : FromIterFirst("it", m)
    \/ FromIterDrain
    \/ /\ ret.op = "from_iter"
       /\ root["graph2"] = None
       /\ SetRoot("graph2", ret.ref[1])
    \/ ~Live("it2") /\ GraphDfs("it2", "graph2")
    \/ IterNext("it2")

SpecTree == Init /\ [][NextTree]_vars

\* --------------------------------------------------------------- SpecDag
\* A caller that builds an acyclic graph top down (every edge leads to a
\* node allocated later) and then walks it from one of its nodes.

\* graph.own_node(Node::new(..)) while the graph is built.
BuildNode(nodes) ==
    /\ ~Live("it")
    /\ Len(heap) < nodes
    /\ OwnNode("graph", NextDatum("graph"))

\* n.add_edge(t) from a node to a later one while the graph is built.
BuildEdge(edges) ==
    \E n \in Addr, t \in Addr :
        /\ ~Live("it")
        /\ NumEdges < edges
        /\ n < t
        /\ AddEdge(n, t)

\* One more next() of the walk.  No acyclic graph of e edges has more than
\* 2^e paths from a node, so the limit never stops a walk of the graph.
Walk(edges) ==
    /\ Live("it")
    /\ Len(It("it").out) < 2 ^ edges
    /\ IterNext("it")

NextDag ==
    \/ BuildNode(DagNodes)
    \/ BuildEdge(DagEdges)
    \/ \E n \in Addr : ~Live("it") /\ Dfs("it", n)
    \/ Walk(DagEdges)

SpecDag == Init /\ [][NextDag]_vars

\* The same caller, who keeps calling next() once the walk has begun.
NextWalk ==
    \/ BuildNode(WalkNodes)
    \/ BuildEdge(WalkEdges)
    \/ \E n \in Addr : ~Live("it") /\ Dfs("it", n)
    \/ Walk(WalkEdges)

SpecWalk == Init /\ [][NextWalk]_vars /\ WF_vars(Walk(WalkEdges))

\* --------------------------------------------------------- graph theory
\* The nodes a node's edge list names.
Succ(a) == {Edges(heap, a)[k] : k \in 1..Len(Edges(heap, a))}

\* The nodes reachable from a set of nodes in zero or more edges.
RECURSIVE ReachFrom(_)
ReachFrom(S) ==
    LET T == S \cup UNION {Succ(a) : a \in S}
    IN  IF T = S THEN S ELSE ReachFrom(T)

\* n reaches a node that lies on a cycle.
ReachesCycle(n) == \E c \in ReachFrom({n}) : c \in ReachFrom(Succ(c))

\* The pre-order walk of the nodes below n: n, then the walk of each edge
\* target in list order.  Defined for acyclic graphs.
RECURSIVE PreOrder(_)
PreOrder(n) ==
    LET es == Edges(heap, n)
        RECURSIVE Cat(_)
        Cat(k) == IF k > Len(es) THEN <<>> ELSE PreOrder(es[k]) \o Cat(k + 1)
    IN  <<n>> \o Cat(1)

\* The number of paths that start at n and end at a (the empty path counts).
RECURSIVE PathsTo(_, _)
PathsTo(n, a) ==
    LET es == Edges(heap, n)
        RECURSIVE Sum(_)
        Sum(k) == IF k > Len(es) THEN 0 ELSE PathsTo(es[k], a) + Sum(k + 1)
    IN  (IF n = a THEN 1 ELSE 0) + Sum(1)

\* The number of paths that start at n.
RECURSIVE NumPaths(_)
NumPaths(n) ==
    LET es == Edges(heap, n)
        RECURSIVE Sum(_)
        Sum(k) == IF k > Len(es) THEN 0 ELSE NumPaths(es[k]) + Sum(k + 1)
    IN  1 + Sum(1)

\* How often a occurs in the sequence o.
Count(o, a) == Cardinality({k \in 1..Len(o) : o[k] = a})

\* The number of edges that lead to a.
InDegree(a) ==
    Cardinality({<<n, k>> \in Addr \X (1..Len(heap)) :
                    k <= Len(Edges(heap, n)) /\ Edges(heap, n)[k] = a})

\* Graph g is a tree under its root: every node of its arena is reachable
\* from the root, the root has no parent and every other node has one.
IsTree(g) ==
    /\ root[g] # None
    /\ ReachFrom({root[g][1]}) = arena[g]
    /\ \A a \in arena[g] : InDegree(a) = IF a = root[g][1] THEN 0 ELSE 1

\* The data of a sequence of nodes.
DataOf(o) == [k \in 1..Len(o) |-> heap[o[k]].datum]

\* ---------------------------------------------------------------- claims

\* C1: on a tree, a walk from a node that ran to its end while the tree was
\* left alone yielded the pre-order walk of that node's subtree; started at
\* the root it yielded every node of the graph exactly once; the tree of
\* the test (1 -> 2, 3 and 2 -> 4, 5) yields the data 1, 2, 4, 5, 3.
C1_TreePreOrder ==
    \A i \in IterNames : Live(i) /\ It(i).ended /\ ~It(i).mutated =>
        /\ It(i).out = PreOrder(It(i).start)
        /\ \A g \in Graphs : IsTree(g) /\ root[g] = Some(It(i).start) =>
              \A a \in arena[g] : Count(It(i).out, a) = 1
        /\ (/\ arena["graph"] = 1..5
            /\ It(i).start = 1
            /\ Edges(heap, 1) = <<2, 3>>
            /\ Edges(heap, 2) = <<4, 5>>
            /\ \A a \in 3..5 : Edges(heap, a) = <<>>)
           => DataOf(It(i).out) = <<1, 2, 4, 5, 3>>

\* graph.dfs() has ended on the tree of the test.
C1_Witness ==
    /\ Live("it")
    /\ It("it").ended
    /\ ~It("it").mutated
    /\ IsTree("graph")
    /\ root["graph"] = Some(It("it").start)
    /\ arena["graph"] = 1..5
    /\ Edges(heap, 1) = <<2, 3>>
    /\ Edges(heap, 2) = <<4, 5>>
    /\ DataOf(It("it").out) = <<1, 2, 4, 5, 3>>

\* C2: on an acyclic graph a walk yields a node once for every path from
\* the start node to it: never more values than there are paths from the
\* start, and exactly that many when it ends; the diamond 1 -> 2, 3 and
\* 2 -> 4 and 3 -> 4 yields 1, 2, 4, 3, 4.
C2_OncePerPath ==
    Live("it") =>
        /\ Len(It("it").out) <= NumPaths(It("it").start)
        /\ \A a \in Addr :
              Count(It("it").out, a) <= PathsTo(It("it").start, a)
        /\ It("it").ended =>
              /\ Len(It("it").out) = NumPaths(It("it").start)
              /\ \A a \in Addr :
                    Count(It("it").out, a) = PathsTo(It("it").start, a)
              /\ It("it").out = PreOrder(It("it").start)
              /\ (/\ It("it").start = 1
                  /\ Len(heap) = 4
                  /\ Edges(heap, 1) = <<2, 3>>
                  /\ Edges(heap, 2) = <<4>>
                  /\ Edges(heap, 3) = <<4>>
                  /\ Edges(heap, 4) = <<>>)
                 => It("it").out = <<1, 2, 4, 3, 4>>

\* The walk of the diamond has ended after yielding its shared node twice.
C2_Witness ==
    /\ Live("it")
    /\ It("it").ended
    /\ Len(heap) = 4
    /\ Edges(heap, 2) = <<4>>
    /\ Edges(heap, 3) = <<4>>
    /\ It("it").out = <<1, 2, 4, 3, 4>>

\* C3: n.add_edge(t) always succeeds, returns t, and leaves n's edge list
\* equal to its previous list with t appended at the end, also for a
\* duplicate target, a self-loop and a first edge; no other node, no datum,
\* no arena and no root changes.
C3_AddEdgeAppends ==
    [][\A n \in Addr, t \in Addr : AddEdge(n, t) =>
          /\ panic' = "none"
          /\ ret' = [op |-> "add_edge", ref |-> Some(t)]
          /\ Len(heap') = Len(heap)
          /\ heap'[n].edges = Some(Append(Edges(heap, n), t))
          /\ heap'[n].datum = heap[n].datum
          /\ \A m \in Addr : m # n => heap'[m] = heap[m]
          /\ root' = root
          /\ arena' = arena]_vars

\* add_edge has just returned after appending a node to its own list a
\* second time: first edge, self-loop and duplicate.
C3_Witness ==
    /\ panic = "none"
    /\ ret.op = "add_edge"
    /\ \E n \in Addr : Edges(heap, n) = <<n, n>> /\ ret.ref = Some(n)

\* C4: root() and graph.dfs() panic whenever the root cell is unset, which
\* is so exactly until the first set_root, whatever else was called; once
\* set, root() returns the argument of the latest set_root (the cell is
\* written by set_root only, with its argument) and is never unset again.
C4_Root ==
    [][/\ Root("graph") =>
            IF root["graph"] = None
            THEN panic' = "root"
            ELSE panic' = "none" /\ ret' = [op |-> "root", ref |-> root["graph"]]
       /\ GraphDfs("it", "graph") /\ root["graph"] = None =>
            panic' = "root" /\ iters' = iters
       /\ \A n \in Addr : SetRoot("graph", n) => root'["graph"] = Some(n)
       /\ root'["graph"] # root["graph"] => \E n \in Addr : SetRoot("graph", n)
       /\ root["graph"] # None => root'["graph"] # None]_vars

\* root() has panicked on an unrooted graph that already holds nodes and
\* edges.
C4_Witness ==
    /\ panic = "root"
    /\ root["graph"] = None
    /\ NumEdges > 0

\* C7: from_iter panics when the first next() of its sequence is None; a
\* panic comes only from reading an unset root or from that: no step of
\* own_node, set_root, add_edge, dfs or next panics.
C7_OnlyTwoFatal ==
    [][/\ Live("it") /\ FromIterFirst("it", None)
            /\ DfsNext(It("it").branch_points, heap).item = None
          => panic' = "from_iter"
       /\ panic = "none" /\ panic' # "none" =>
            \/ /\ panic' = "root"
               /\ root["graph"] = None
               /\ Root("graph") \/ GraphDfs("it", "graph")
            \/ /\ panic' = "from_iter"
               /\ Live("it")
               /\ FromIterFirst("it", None)
               /\ DfsNext(It("it").branch_points, heap).item = None]_vars

\* from_iter has panicked on an iterator that had already yielded its nodes.
C7_Witness ==
    /\ panic = "from_iter"
    /\ Live("it")
    /\ Len(It("it").out) >= 2

\* C8: the first value a DfsIter started at node n yields is n, so a
\* from_iter over a fresh iterator returns its start node; graph.dfs()
\* starts at the graph's root.
C8_FirstIsStart ==
    /\ [](\A i \in IterNames : Live(i) =>
            /\ It(i).out # <<>> => It(i).out[1] = It(i).start
            /\ It(i).ended => It(i).out # <<>>)
    /\ [](coll.pc # "idle" /\ coll.from = 0 /\ coll.map = None =>
            coll.root = Some(It(coll.it).start))
    /\ [][/\ GraphDfs("it", "graph") /\ root["graph"] # None =>
               iters'["it"] = Some(NewIter(root["graph"][1]))
          /\ coll.pc = "drain" /\ coll'.pc = "done" => ret'.ref = coll.root]_vars

\* from_iter has returned the start node of an iterator over a node that
\* has edges.
C8_Witness ==
    /\ coll.pc = "done"
    /\ coll.from = 0
    /\ ret = [op |-> "from_iter", ref |-> Some(It(coll.it).start)]
    /\ Len(It(coll.it).out) >= 2

\* C10: an iterator started at a node that reaches a cycle, on a graph not
\* changed since, never returns None and its stack is never empty; on the
\* 2-cycle a -> b -> a started at a it yields a, b, a, b, ...
C10_CycleNeverEnds ==
    \A i \in IterNames : Live(i) /\ ~It(i).mutated =>
        /\ ReachesCycle(It(i).start) =>
              ~It(i).ended /\ It(i).branch_points # <<>>
        /\ \A b \in Addr :
              /\ b # It(i).start
              /\ Edges(heap, It(i).start) = <<b>>
              /\ Edges(heap, b) = <<It(i).start>>
              => \A k \in 1..Len(It(i).out) :
                    It(i).out[k] = IF k % 2 = 1 THEN It(i).start ELSE b

\* The iterator over the 2-cycle has yielded a, b, a, b.
C10_Witness ==
    /\ Live("it")
    /\ ~It("it").mutated
    /\ Len(It("it").out) >= 4
    /\ \E b \in Addr :
          /\ b # It("it").start
          /\ Edges(heap, It("it").start) = <<b>>
          /\ Edges(heap, b) = <<It("it").start>>

\* A mapped collect of graph.dfs() into graph2 has returned, graph2's root
\* is its result, and a walk of graph2 has ended.
MappedAndWalked ==
    /\ coll.pc = "done"
    /\ coll.map = Some("graph2")
    /\ coll.from = 0
    /\ ~It(coll.it).mutated
    /\ root["graph"] = Some(It(coll.it).start)
    /\ IsTree("graph")
    /\ root["graph2"] = coll.root
    /\ Live("it2")
    /\ It("it2").ended
    /\ ~It("it2").mutated

\* C5: after mapping the walk of a tree into graph2 and collecting, the walk
\* of graph2 yields the transformed data of all the nodes of the tree in the
\* same order.
C5_MappedIsomorphic ==
    MappedAndWalked =>
        DataOf(It("it2").out) =
            [k \in 1..Len(It(coll.it).out) |->
                Transform(heap[It(coll.it).out[k]].datum)]

\* C6: from_iter returns the first reference it was handed and asks for
\* elements until next() is None: when it returns the iterator has ended
\* with an empty stack, the closure of a mapped collect ran once for every
\* node the iterator yielded during the call, in that order, and no step of
\* the drain changes a node that exists.
C6_FirstAndDrained ==
    /\ [](coll.pc # "idle" =>
            LET o == It(coll.it).out
                made == arena["graph2"]
            IN  /\ coll.map = None => coll.root = Some(o[coll.from + 1])
                /\ coll.map # None =>
                     /\ Cardinality(made) = Len(o) - coll.from
                     /\ coll.root[1] \in made
                     /\ \A a \in made :
                          /\ coll.root[1] <= a
                          /\ heap[a].edges = None
                          /\ \E k \in (coll.from + 1)..Len(o) :
                               /\ heap[a].datum = Transform(heap[o[k]].datum)
                               /\ Cardinality({b \in made : b <= a})
                                     = k - coll.from
                /\ coll.pc = "done" =>
                     /\ It(coll.it).ended
                     /\ It(coll.it).branch_points = <<>>)
    /\ [][/\ coll.pc = "drain" => \A a \in Addr : heap'[a] = heap[a]
          /\ coll.pc = "drain" /\ coll'.pc = "done" =>
               ret' = [op |-> "from_iter", ref |-> coll.root]]_vars

\* A mapped collect over the walk of a tree of five nodes has returned.
C6_Witness ==
    /\ coll.pc = "done"
    /\ coll.map = Some("graph2")
    /\ coll.from = 0
    /\ Cardinality(arena["graph2"]) = 5
    /\ ret = [op |-> "from_iter", ref |-> coll.root]

\* C9: on an acyclic graph that is left alone, a caller that keeps calling
\* next() gets None after finitely many calls, with the stack empty.
C9_Terminates ==
    Live("it") ~>
        (Live("it") /\ It("it").ended /\ It("it").branch_points = <<>>)

\* A walk that yielded at least six values has ended.
C9_Witness ==
    /\ Live("it")
    /\ It("it").ended
    /\ It("it").branch_points = <<>>
    /\ Len(It("it").out) >= 6

\* --------------------------------------------------------------- SpecOwn
\* A caller that holds both Graph values in one scope.  Graph<'a, T> and
\* &'a Node<'a, T> name a lifetime, never an arena, so the references of the
\* one graph have the type set_root and add_edge of the other ask for.
NextOwn ==
    \/ \E g \in Graphs : Len(heap) < OwnNodes /\ OwnNode(g, NextDatum(g))
    \/ \E g \in Graphs, n \in Addr : SetRoot(g, n)
    \/ \E g \in Graphs : root[g] # None /\ Root(g)
    \/ \E n \in Addr, t \in Addr : NumEdges < OwnEdges /\ AddEdge(n, t)

SpecOwn == Init /\ [][NextOwn]_vars

\* C11: every reference a graph holds is to a node of its own arena: a root
\* that is set is a node this graph's own_node allocated, and every edge
\* target of a node of the arena is a node of the same arena.
C11_OwnedByArena ==
    /\ \A g \in Graphs : root[g] # None => root[g][1] \in arena[g]
    /\ \A g \in Graphs : \A a \in arena[g] : Succ(a) \subseteq arena[g]

\* -------------------------------------------------------------- traverse
\* Node::traverse, the recursive walk guarded by a set of visited data.
\* The walk is run one call or return at a time on the stack of its
\* activations: an activation is the node it was called on, whether it has
\* passed the check of the visited set, the edge cell it took, and the
\* number of children it has recursed into.

\* A visited set keyed on the node instead of its datum.
key_by_node(h, n) == n

\* The key of the visited set: the node's datum.
key(h, n) == h[n].datum

Activation(n) == [node |-> n, entered |-> FALSE, cell |-> None, k |-> 0]

\* n.traverse(callback): the call about to run.
traverse(n) ==
    [pc |-> "run", start |-> n, stack |-> <<Activation(n)>>, visited |-> {},
     calls |-> <<>>]

\* What is left when the top activation returns.
Return(t) ==
    LET rest == SubSeq(t.stack, 1, Len(t.stack) - 1)
    IN  [t EXCEPT !.stack = rest,
                  !.pc = IF rest = <<>> THEN "done" ELSE "run"]

\* A traverse that never looks at the visited set.
traverse_enter_unguarded(t, h) ==
    LET top == Len(t.stack)
        n   == t.stack[top].node
    IN  [trav |-> [t EXCEPT !.calls = Append(@, n),
                            !.visited = @ \cup {key(h, n)},
                            !.stack[top] = [node |-> n, entered |-> TRUE,
                                            cell |-> h[n].edges, k |-> 0]],
         heap |-> take(h, n)]

\* The head of traverse: return at once on a visited datum; otherwise call
\* back, insert the datum, and take the edge list for the recursion.
traverse_enter(t, h) ==
    LET top == Len(t.stack)
        n   == t.stack[top].node
    IN  IF key(h, n) \in t.visited
        THEN [trav |-> Return(t), heap |-> h]
        ELSE [trav |-> [t EXCEPT !.calls = Append(@, n),
                                 !.visited = @ \cup {key(h, n)},
                                 !.stack[top] = [node |-> n, entered |-> TRUE,
                                                 cell |-> h[n].edges, k |-> 0]],
              heap |-> take(h, n)]

\* The loop of traverse over the taken edge list, in insertion order: the
\* recursive call on the next target, or the restore of the list and the
\* return.
traverse_child(t, h) ==
    LET top   == Len(t.stack)
        f     == t.stack[top]
        edges == unwrap_or_new(f.cell)
    IN  IF f.k < Len(edges)
        THEN [trav |-> [t EXCEPT !.stack =
                            Append([@ EXCEPT ![top].k = f.k + 1],
                                   Activation(edges[f.k + 1]))],
              heap |-> h]
        ELSE [trav |-> Return(t), heap |-> replace(h, f.node, f.cell)]

\* let n.traverse(callback) begin
Traverse(n) ==
    /\ Running
    /\ trav.pc = "idle"
    /\ trav' = traverse(n)
    /\ UNCHANGED <<heap, arena, root, iters, coll, ret, panic>>

\* One call or return of the running traverse.
TraverseStep ==
    /\ panic = "none"
    /\ trav.pc = "run"
    /\ LET r == IF trav.stack[Len(trav.stack)].entered
                THEN traverse_child(trav, heap)
                ELSE traverse_enter(trav, heap)
       IN  /\ trav' = r.trav
           /\ heap' = r.heap
    /\ UNCHANGED <<arena, root, iters, coll, ret, panic>>

\* -------------------------------------------------------------- SpecTrav
\* A caller that builds any graph, cycles and equal data included, and then
\* runs traverse from one of its nodes.

\* The data in use, numbered in order of first use: traverse compares data
\* for equality only, so a new node's datum is one in use or the next one.
DataInUse == {heap[a].datum : a \in Addr}

\* graph.own_node(Node::new(d)) while the graph is built.
TravNode(nodes) ==
    \E d \in 1..(Cardinality(DataInUse) + 1) :
        /\ trav.pc = "idle"
        /\ Len(heap) < nodes
        /\ OwnNode("graph", d)

\* n.add_edge(t) between any two nodes while the graph is built.
TravEdge(edges) ==
    \E n \in Addr, t \in Addr :
        /\ trav.pc = "idle"
        /\ NumEdges < edges
        /\ AddEdge(n, t)

\* The recursion of a walk is never deeper than one activation for each
\* node and the call on top of them.
Recur ==
    /\ Len(trav.stack) <= Len(heap) + 1
    /\ TraverseStep

NextTrav ==
    \/ TravNode(TravNodes)
    \/ TravEdge(TravEdges)
    \/ \E n \in Addr : Traverse(n)
    \/ Recur

SpecTrav == Init /\ [][NextTrav]_vars

\* The same caller on smaller graphs, where the traverse keeps running.
NextLoop ==
    \/ TravNode(LoopNodes)
    \/ TravEdge(LoopEdges)
    \/ \E n \in Addr : Traverse(n)
    \/ Recur

SpecLoop == Init /\ [][NextLoop]_vars /\ WF_vars(Recur)

\* The nodes whose datum was passed to the callback, as a set.
Called == {trav.calls[k] : k \in 1..Len(trav.calls)}

\* C12: a run of traverse passes each distinct datum to the callback at most
\* once, and a node whose datum was already visited is skipped with what
\* lies below it: when the run is over the first call was on the start
\* node, every later call was on an edge target of a node called before it,
\* and the datum of every edge target of a called node has been passed.
C12_OncePerDatum ==
    /\ \A j \in 1..Len(trav.calls), k \in 1..Len(trav.calls) :
          heap[trav.calls[j]].datum = heap[trav.calls[k]].datum => j = k
    /\ trav.pc = "done" =>
          /\ trav.calls[1] = trav.start
          /\ \A k \in 2..Len(trav.calls) :
                \E j \in 1..(k - 1) : trav.calls[k] \in Succ(trav.calls[j])
          /\ \A a \in Called : \A t \in Succ(a) :
                \E c \in Called : heap[c].datum = heap[t].datum

\* A finished run on the chain 1 -> 2 -> 3 where node 2 repeats the datum of
\* node 1: node 2 was skipped, and node 3, reachable through it only, with it.
C12_Witness ==
    /\ trav.pc = "done"
    /\ trav.start = 1
    /\ Len(heap) = 3
    /\ heap[2].datum = heap[1].datum
    /\ heap[3].datum # heap[1].datum
    /\ Edges(heap, 1) = <<2>>
    /\ Edges(heap, 2) = <<3>>
    /\ trav.calls = <<1>>

\* The 2-cycle A -> B -> A with distinct data, walked from A: A is node 1 and
\* B is node 2.
TwoCycle ==
    /\ trav.start = 1
    /\ Len(heap) >= 2
    /\ heap[1].datum # heap[2].datum
    /\ Edges(heap, 1) = <<2>>
    /\ Edges(heap, 2) = <<1>>

\* C13: a traverse that was called returns, on every graph the caller built,
\* cyclic ones included; on the 2-cycle A -> B -> A it has then called back
\* on A's datum and on B's datum, in this order, and on nothing else.
C13_Terminates ==
    /\ trav.pc = "run" ~> trav.pc = "done"
    /\ [](trav.pc = "done" /\ TwoCycle => trav.calls = <<1, 2>>)

\* The traverse of the 2-cycle has returned.
C13_Witness ==
    /\ trav.pc = "done"
    /\ TwoCycle
    /\ trav.calls = <<1, 2>>

\* One next() of iterator i that maps nothing: the caller's own call, or a
\* call from_iter makes on the plain iterator.
CallsNext(i) ==
    \/ IterNext(i)
    \/ FromIterFirst(i, None)
    \/ coll.it = i /\ coll.map = None /\ FromIterDrain

\* C14: a call of next(), whether it returns a node or None, leaves every
\* node with the datum and the edge cell it had, allocates nothing, and
\* leaves every root as it was.
C14_NextKeepsGraph ==
    [][(\E i \in IterNames : CallsNext(i)) =>
          heap' = heap /\ arena' = arena /\ root' = root]_vars

\* An iterator that walked a graph with edges to its end: it took and put
\* back the edge list of node 1 once for its emission and once for every
\* child index up to the one out of range.
C14_Witness ==
    /\ Live("it")
    /\ It("it").ended
    /\ It("it").start = 1
    /\ Len(heap) = 2
    /\ Edges(heap, 1) = <<2, 2>>
    /\ It("it").out = <<1, 2, 2>>

\* The last element of a non-empty sequence.
Last(s) == s[Len(s)]

\* The stack bp holds a started frame of node n whose index has not passed
\* position k of n's edge list (positions count from 0).
Pending(bp, n, k) ==
    \E j \in 1..Len(bp) : bp[j][2] = n /\ bp[j][1] # None /\ bp[j][1][1] <= k

\* C15: a next() that emits node n leaves the frame (Some(0), n) on top of
\* the stack, whether n has edges or not; so when add_edge appends an edge
\* to the node the iterator emitted last, a started frame of that node is
\* on the stack with the new edge still ahead of its index.
C15_StartedFramePushed ==
    [][\A i \in IterNames :
          /\ CallsNext(i) /\ iters'[i][1].out # It(i).out =>
                /\ iters'[i][1].branch_points # <<>>
                /\ Last(iters'[i][1].branch_points)
                      = <<Some(0), Last(iters'[i][1].out)>>
          /\ \A n \in Addr, t \in Addr :
                (/\ AddEdge(n, t)
                 /\ Live(i)
                 /\ ~It(i).ended
                 /\ It(i).out # <<>>
                 /\ Last(It(i).out) = n)
                => Pending(It(i).branch_points, n, Len(Edges(heap, n)))]_vars

\* a is a prefix of b.
IsPrefix(a, b) == Len(a) <= Len(b) /\ SubSeq(b, 1, Len(a)) = a

\* The edge targets of n among the nodes of o, in the order of o.
Kids(o, n) == SelectSeq(o, LAMBDA x : x \in Succ(n))

\* The first position of a in o.
Pos(o, a) == CHOOSE k \in 1..Len(o) : o[k] = a /\ \A j \in 1..(k - 1) : o[j] # a

\* What a next() that pops the started frame (index, n) does to iterator i:
\* with the index in range of n's edge list as it is now, the frame comes
\* back with index + 1 and the child edges[index] is yielded (with its own
\* started frame on top when it has edges); with the index out of range the
\* frame is gone and the call goes on with the frames below.
PopsStarted(i) ==
    LET bp    == It(i).branch_points
        rest  == SubSeq(bp, 1, Len(bp) - 1)
        index == Last(bp)[1][1]
        n     == Last(bp)[2]
        edges == Edges(heap, n)
        child == edges[index + 1]
        below == DfsNext(rest, heap)
    IN  IF index < Len(edges)
        THEN /\ iters'[i][1].out = Append(It(i).out, child)
             /\ iters'[i][1].branch_points =
                   Append(rest, <<Some(index + 1), n>>)
                   \o (IF heap[child].edges = None THEN <<>>
                       ELSE << <<Some(0), child>> >>)
        ELSE /\ iters'[i][1].branch_points = below.branch_points
             /\ iters'[i][1].out = IF below.item = None THEN It(i).out
                                   ELSE Append(It(i).out, below.item[1])

\* C16: a next() that pops a started frame compares its index with the
\* node's edge list as it is at that moment and descends into edges[index]
\* or discards the frame.  Hence, on a tree that grows while it is walked,
\* the children of an emitted node are yielded in the order of its edge
\* list, each after everything below the child before it, and a walk that
\* ran to its end has yielded every edge appended to a node while a frame of
\* the node was on the stack.
C16_AppendedEdgesVisited ==
    /\ [][\A i \in IterNames :
             (/\ CallsNext(i)
              /\ It(i).branch_points # <<>>
              /\ Last(It(i).branch_points)[1] # None)
             => PopsStarted(i)]_vars
    /\ [](\A i \in IterNames : Live(i) =>
            LET o == It(i).out
            IN  /\ \A k \in 1..Len(o) :
                      LET kids == Kids(o, o[k])
                      IN  /\ IsPrefix(kids, Edges(heap, o[k]))
                          /\ \A c \in 1..(Len(kids) - 1) :
                                \A j \in Pos(o, kids[c])..(Pos(o, kids[c + 1]) - 1) :
                                   o[j] \in ReachFrom({kids[c]})
                /\ It(i).ended =>
                      \A d \in It(i).due :
                         \E j \in 1..Len(o) : o[j] = Edges(heap, d[1])[d[2]])

\* A walk from the root ran to its end and yielded 1, 2, 3, 4, 5: the first
\* edge of node 1 was appended before the first next(), and the second edges
\* of node 2 (to 4) and of node 1 (to 5) while the walk stood at node 2.
C16_Witness ==
    /\ Live("it")
    /\ It("it").ended
    /\ It("it").start = 1
    /\ It("it").due = {<<1, 1>>, <<2, 2>>, <<1, 2>>}
    /\ Edges(heap, 1) = <<2, 5>>
    /\ Edges(heap, 2) = <<3, 4>>
    /\ It("it").out = <<1, 2, 3, 4, 5>>

\* C17: no step of the callers removes a node from an arena or from the
\* heap, changes a datum, or changes an edge list other than by appending:
\* the list before the step is a prefix of the list after it.  Being a
\* prefix is transitive, so the same holds between any two states of a run.
C17_OnlyGrows ==
    [][/\ \A g \in Graphs : arena[g] \subseteq arena'[g]
       /\ Len(heap) <= Len(heap')
       /\ \A a \in Addr :
             /\ heap'[a].datum = heap[a].datum
             /\ IsPrefix(Edges(heap, a), Edges(heap', a))]_vars

\* Node 1 received two edges, the second one after a walk from the root
\* had begun, and the walk went on afterwards.
C17_Witness ==
    /\ Len(heap) = 2
    /\ root["graph"] = Some(1)
    /\ Edges(heap, 1) = <<2, 1>>
    /\ Live("it")
    /\ It("it").mutated
    /\ It("it").due = {<<1, 2>>}
    /\ It("it").out = <<1, 2, 1>>

\* The frames of the live iterators.
Frames == UNION {{It(i).branch_points[j] : j \in 1..Len(It(i).branch_points)} :
                    i \in {x \in IterNames : Live(x)}}

\* C18: between operations every started frame (Some(index), node) of an
\* iterator's stack is a frame of a node whose edge cell holds a non-empty
\* list, and index is at most the length of the list; so a next() finds an
\* empty cell under a not-yet-started frame only, and emits the node of a
\* frame no more than once.
C18_StartedFrameHasEdges ==
    \A f \in Frames :
        f[1] # None =>
            /\ heap[f[2]].edges # None
            /\ Len(Edges(heap, f[2])) >= 1
            /\ f[1][1] <= Len(Edges(heap, f[2]))

\* A walk of the loop 1 -> 1 holds two started frames of node 1, the lower
\* one with its index at the end of the list.
C18_Witness ==
    /\ Live("it")
    /\ Edges(heap, 1) = <<1>>
    /\ It("it").branch_points = << <<Some(1), 1>>, <<Some(0), 1>> >>

\* -------------------------------------------------------------- SpecPair
\* A caller that builds any graph, cycles included, and then holds two
\* iterators over it and calls next() on the one or the other in any order.

\* let i = n.dfs() once the graph is built.
PairDfs(i) ==
    \E n \in Addr :
        /\ ~Live(i)
        /\ Dfs(i, n)

\* i.next(), for as long as the caller asks.
PairNext(i) ==
    /\ Live(i)
    /\ Len(It(i).out) < PairOut
    /\ IterNext(i)

NextPair ==
    \/ ~Live("it") /\ ~Live("it2") /\ Len(heap) < PairNodes
          /\ OwnNode("graph", NextDatum("graph"))
    \/ \E n \in Addr, t \in Addr :
          ~Live("it") /\ ~Live("it2") /\ NumEdges < PairEdges /\ AddEdge(n, t)
    \/ PairDfs("it")
    \/ PairDfs("it2")
    \/ PairNext("it")
    \/ PairNext("it2")

SpecPair == Init /\ [][NextPair]_vars

\* What an iterator yields when it runs alone: the items of the first k
\* calls of next() from the stack bp on the heap h, and whether a None
\* ended them.
RECURSIVE Alone(_, _, _)
Alone(bp, h, k) ==
    IF k = 0 THEN [out |-> <<>>, ended |-> FALSE]
    ELSE LET r == DfsNext(bp, h)
         IN  IF r.item = None THEN [out |-> <<>>, ended |-> TRUE]
             ELSE LET more == Alone(r.branch_points, r.heap, k - 1)
                  IN  [out |-> <<r.item[1]>> \o more.out, ended |-> more.ended]

\* C19: iterators over the same graph whose next() calls interleave, with no
\* add_edge in between, do not interfere: what an iterator has yielded is
\* what it yields alone in as many calls from its start node, it has ended
\* only where it ends alone, and two iterators from the same node have
\* yielded the same sequence up to the shorter one.
C19_NoInterference ==
    /\ \A i \in IterNames : Live(i) =>
          LET alone == Alone(dfs(It(i).start).branch_points, heap,
                             Len(It(i).out) + 1)
          IN  /\ IsPrefix(It(i).out, alone.out)
              /\ It(i).ended => alone.ended /\ alone.out = It(i).out
    /\ (Live("it") /\ Live("it2") /\ It("it").start = It("it2").start) =>
          \/ IsPrefix(It("it").out, It("it2").out)
          \/ IsPrefix(It("it2").out, It("it").out)

\* Two walks of the graph 1 -> 2, 1 -> 1 from node 1 whose calls alternated,
\* the second one a call behind the first.
C19_Witness ==
    /\ Live("it")
    /\ Live("it2")
    /\ Edges(heap, 1) = <<2, 1>>
    /\ It("it").out = <<1, 2, 1>>
    /\ It("it2").out = <<1, 2>>

\* C20: once next() has been called, the stack of an iterator is a path of
\* the graph from the start node: the bottom frame is a frame of the start
\* node, every frame is started, every frame below the top has an index
\* j >= 1 and the frame above it is a frame of edges[j - 1] of its node.
C20_StackIsPath ==
    \A i \in IterNames :
        (Live(i) /\ (It(i).out # <<>> \/ It(i).ended)) =>
            LET bp == It(i).branch_points
            IN  /\ bp # <<>> => bp[1][2] = It(i).start
                /\ \A k \in 1..Len(bp) : bp[k][1] # None
                /\ \A k \in 1..(Len(bp) - 1) :
                      /\ bp[k][1][1] >= 1
                      /\ bp[k][1][1] <= Len(Edges(heap, bp[k][2]))
                      /\ bp[k + 1][2] = Edges(heap, bp[k][2])[bp[k][1][1]]

\* A walk from node 1 of the graph 1 -> 2, 2 -> 1 that stands at node 2:
\* the frame of node 1 has passed its first edge and the frame of node 2
\* on top of it has index 0.
C20_Witness ==
    /\ Live("it")
    /\ Edges(heap, 1) = <<2>>
    /\ Edges(heap, 2) = <<1>>
    /\ It("it").out = <<1, 2>>
    /\ It("it").branch_points = << <<Some(1), 1>>, <<Some(0), 2>> >>

=============================================================================
